---------------------------- MODULE Spec2Model ----------------------------
(***************************************************************************)
(* KMED simulations: the bounded stochastic stepper (step_asymptotic) and  *)
(* the five schedulers that drive it (simulate_asym,                      *)
(* simulate_asym_schedule, simulate_intermit, simulate_gaslighting,       *)
(* simulate_training), all drawing from one shared generator rng.         *)
(*                                                                         *)
(* Numbers are fixed point: the integer v stands for v / One, so One is    *)
(* 1.0, 5125 is 0.5125 and 40 is 0.004.  A product k*(theta - x) is        *)
(* rounded to the grid (toward minus infinity).                            *)
(*                                                                         *)
(* The generator rng is a stream of raw words: rng.stream holds the words  *)
(* that have been produced so far from the seed, rng.pos how many of them  *)
(* have been consumed.  A generator in the same state (same seed, same     *)
(* pos) produces the same words again; a draw past the end of rng.stream   *)
(* may produce any word.  A function that draws is an operator from the    *)
(* generator to the set of its possible outcomes, each with the generator  *)
(* it leaves behind.                                                       *)
(***************************************************************************)
EXTENDS Integers, Sequences, FiniteSets, TLC

VARIABLES
    rng,         \* the shared generator: [stream, pos, cap]
    pc,          \* "idle", the function whose loop is running, "returned", "raised"
    fn,          \* the function that was called
    cfg,         \* the arguments of the call
    entry,       \* rng position when the scheduler was entered
    t,           \* loop index of the update loop
    EA, DT, D,   \* the three trajectories (arrays of length T+1)
    regime,      \* simulate_intermit: regime of the previous step, "None" at first
    phases,      \* make_phase_pattern: the block list
    pt,          \* make_phase_pattern: its local t
    current,     \* make_phase_pattern: label of the next block
    theta_k_series, \* simulate_gaslighting: per-step parameters
    theta,       \* simulate_training: the moving targets EA_theta, DT_theta, D_theta
    in_session,  \* simulate_training: the mask
    used,        \* parameters the last update step passed to step_asymptotic
    results      \* what the calls made so far returned

vars == <<rng, pc, fn, cfg, entry, t, EA, DT, D, regime, phases, pt,
          current, theta_k_series, theta, in_session, used, results>>

(***************************************************************************)
(* Bounds                                                                  *)
(***************************************************************************)
\* 1.0 in fixed point (the upper clip bound)
One == 10000
\* largest horizon T
MaxT == 2
\* number of words the generator may produce in one behaviour
MaxStream == 4
\* number of scheduler calls in one behaviour
MaxRuns == 2
\* number of words the generator may produce in a behaviour of the sweep
MaxSweepStream == 8

\* the raw words of the generator
Raw == {0, 1, 2}
\* content of an np.empty cell that has not been written
Uninit == -(One * One)

Min(a, b) == IF a < b THEN a ELSE b
Max(a, b) == IF a > b THEN a ELSE b

(***************************************************************************)
(* rng = np.random.default_rng(42)                                         *)
(***************************************************************************)
\* the standard normal variate each raw word stands for
ZTable == <<-300, 1, 300>>

\* the words the generator g can produce next
NextWords(g) == IF g.pos < Len(g.stream) THEN {g.stream[g.pos + 1]} ELSE Raw
\* the generator g after it produced word r
Drawn(g, r) ==
    [g EXCEPT !.stream = IF g.pos < Len(g.stream) THEN g.stream ELSE Append(g.stream, r),
              !.pos = g.pos + 1]
\* rng.normal(0.0, scale), for scale > 0
rng_normal(g, scale) == {[v |-> scale * ZTable[r + 1], g |-> Drawn(g, r)] : r \in NextWords(g)}
\* rng.random(): a value in [0, 1)
rng_random(g) == {[v |-> (r * One) \div Cardinality(Raw), g |-> Drawn(g, r)] : r \in NextWords(g)}
\* rng.integers(low, high), for low < high: a value in [low, high)
rng_integers(g, low, high) ==
    {[v |-> low + (r % (high - low)), g |-> Drawn(g, r)] : r \in NextWords(g)}

(***************************************************************************)
(* step_asymptotic                                                         *)
(***************************************************************************)
\* np.clip(x, lo, hi)
clip(x, lo, hi) == Min(Max(x, lo), hi)
\* k*(theta - x) on the fixed-point grid
Mul(k, d) == (k * d) \div One

\* no draw: eps = 0.0
NoDraw(g) == {[v |-> 0, g |-> g]}

\* faulty variant: the generator is called also when noise_std is 0 (or negative) and
\* the draw is dropped
step_asymptotic_always_draws(x, k, th, noise_std, g) ==
    LET E == IF noise_std > 0 THEN rng_normal(g, noise_std)
             ELSE {[v |-> 0, g |-> e.g] : e \in rng_normal(g, 0)}
    IN  {[x |-> clip(x + Mul(k, th - x) + e.v, 0, One), g |-> e.g] : e \in E}
\* faulty variant: the clip is applied before the noise is added
step_asymptotic_clip_first(x, k, th, noise_std, g) ==
    LET E == IF noise_std > 0 THEN rng_normal(g, noise_std) ELSE NoDraw(g)
    IN  {[x |-> clip(x + Mul(k, th - x), 0, One) + e.v, g |-> e.g] : e \in E}
\* faulty variant: x is clipped on entry
step_asymptotic_clip_entry(x, k, th, noise_std, g) ==
    LET E == IF noise_std > 0 THEN rng_normal(g, noise_std) ELSE NoDraw(g)
        x_in == clip(x, 0, One)
    IN  {[x |-> clip(x_in + Mul(k, th - x_in) + e.v, 0, One), g |-> e.g] : e \in E}
\* step_asymptotic(x, k, theta, noise_std) with the generator in state g:
\* the values it can return, each with the generator it leaves
step_asymptotic(x, k, th, noise_std, g) ==
    LET E == IF noise_std > 0 THEN rng_normal(g, noise_std) ELSE NoDraw(g)
    IN  {[x |-> clip(x + Mul(k, th - x) + e.v, 0, One), g |-> e.g] : e \in E}

\* faulty variant: the EA call passes the literal 0.004 in place of noise_std
StepAll_literal_noise(P, noise_std, g) ==
    UNION {UNION {{[EA |-> a.x, DT |-> b.x, D |-> d.x, g |-> d.g] :
                     d \in step_asymptotic(D[t], P.D_k, P.D_theta, noise_std, b.g)} :
                  b \in step_asymptotic(DT[t], P.DT_k, P.DT_theta, noise_std, a.g)} :
           a \in step_asymptotic(EA[t], P.EA_k, P.EA_theta, 40, g)}
\* faulty variant: the DT call is given element t of EA
StepAll_cross_channel(P, noise_std, g) ==
    UNION {UNION {{[EA |-> a.x, DT |-> b.x, D |-> d.x, g |-> d.g] :
                     d \in step_asymptotic(D[t], P.D_k, P.D_theta, noise_std, b.g)} :
                  b \in step_asymptotic(EA[t], P.DT_k, P.DT_theta, noise_std, a.g)} :
           a \in step_asymptotic(EA[t], P.EA_k, P.EA_theta, noise_std, g)}
\* The three calls every update loop makes at index t, with parameters P,
\* in the order EA, DT, D
StepAll(P, noise_std, g) ==
    UNION {UNION {{[EA |-> a.x, DT |-> b.x, D |-> d.x, g |-> d.g] :
                     d \in step_asymptotic(D[t], P.D_k, P.D_theta, noise_std, b.g)} :
                  b \in step_asymptotic(DT[t], P.DT_k, P.DT_theta, noise_std, a.g)} :
           a \in step_asymptotic(EA[t], P.EA_k, P.EA_theta, noise_std, g)}

\* the update loop writes element t+1 of each trajectory; the generator goes on
Write(s, P) ==
    /\ s.g.pos <= s.g.cap
    /\ rng' = s.g
    /\ EA' = [EA EXCEPT ![t + 1] = s.EA]
    /\ DT' = [DT EXCEPT ![t + 1] = s.DT]
    /\ D' = [D EXCEPT ![t + 1] = s.D]
    /\ used' = P
    /\ t' = t + 1

\* EA = np.empty(T+1); ...; EA[0], DT[0], D[0] = EA0, DT0, D0
Alloc(T, x0) == [i \in 0..T |-> IF i = 0 THEN x0 ELSE Uninit]

(***************************************************************************)
(* Regime parameter sets and inputs                                        *)
(***************************************************************************)
Params(EA_theta, EA_k, DT_theta, DT_k, D_theta, D_k) ==
    [EA_theta |-> EA_theta, EA_k |-> EA_k, DT_theta |-> DT_theta, DT_k |-> DT_k,
     D_theta |-> D_theta, D_k |-> D_k]

\* simulate_asym's defaults
ASYM_DEFAULT == Params(7500, 500, 8000, 600, 1800, 600)
\* F_PARAMS / FIDUCIARY (also phase 2 of simulate_asym_schedule)
F_PARAMS == Params(7400, 500, 8000, 600, 1800, 600)
\* C_PARAMS / CLIENTELIST
C_PARAMS == Params(300, 600, 800, 600, 6500, 400)
\* phase 1 of simulate_asym_schedule
PHASE_1 == Params(500, 600, 1000, 600, 7000, 500)
\* parameters outside [0,1]: targets above 1 and below 0, a rate above 1
WILD == Params(15000, 5000, -5000, 5000, 5000, 20000)

\* initial values EA0, DT0, D0: the defaults, the edges, and values outside [0,1]
X0_DEFAULT == <<5000, 5000, 5000>>
X0_EDGE == <<0, One, 2500>>
X0_OUT == <<-2000, 12000, 5000>>
Horizons == 0..MaxT

\* simulate_asym(T, EA0, DT0, D0, <six parameters>, noise_std)
AsymCfg(T, x0, P, noise_std) == [T |-> T, x0 |-> x0, P |-> P, noise_std |-> noise_std]
AsymCfgs ==
    {AsymCfg(T, x0, P, 0) : T \in Horizons, x0 \in {X0_DEFAULT, X0_EDGE, X0_OUT},
                            P \in {ASYM_DEFAULT, C_PARAMS, WILD}}
    \cup {AsymCfg(T, X0_EDGE, F_PARAMS, noise_std) : T \in Horizons, noise_std \in {40, -40}}

InBounds(x0) == \A i \in 1..3 : 0 <= x0[i] /\ x0[i] <= One

(***************************************************************************)
(* The caller                                                              *)
(***************************************************************************)
\* a second call repeats the first one
Repeats(f, c) == results # <<>> => (results[1].fn = f /\ results[1].cfg = c)

\* the locals of a call that is not running
NoLocals ==
    /\ t' = 0
    /\ EA' = <<>>
    /\ DT' = <<>>
    /\ D' = <<>>
    /\ regime' = "None"
    /\ phases' = <<>>
    /\ pt' = 0
    /\ current' = "none"
    /\ theta_k_series' = <<>>
    /\ theta' = <<>>
    /\ in_session' = <<>>
    /\ used' = <<>>

\* a scheduler is entered: the trajectories are allocated and element 0 is set
Enter(f, c) ==
    /\ pc = "idle"
    /\ Len(results) < MaxRuns
    /\ fn' = f
    /\ cfg' = c
    /\ entry' = rng.pos
    /\ t' = 0
    /\ EA' = Alloc(c.T, c.x0[1])
    /\ DT' = Alloc(c.T, c.x0[2])
    /\ D' = Alloc(c.T, c.x0[3])
    /\ used' = <<>>

\* a scheduler returns: the caller holds what it returned, the locals are gone
Return(extra) ==
    /\ pc' = "returned"
    /\ results' = Append(results,
           [fn |-> fn, cfg |-> cfg, entry |-> entry, exit |-> rng.pos,
            EA |-> EA, DT |-> DT, D |-> D, extra |-> extra])
    /\ NoLocals
    /\ UNCHANGED <<rng, fn, cfg, entry>>

\* the caller goes on to its next call
Next_call ==
    /\ pc \in {"returned", "raised"}
    /\ Len(results) < MaxRuns
    /\ pc' = "idle"
    /\ UNCHANGED <<rng, fn, cfg, entry, t, EA, DT, D, regime, phases, pt,
                   current, theta_k_series, theta, in_session, used, results>>

\* rng = np.random.default_rng(42) again: the same seed, the same stream
Reseed ==
    /\ pc = "idle"
    /\ rng.pos # 0
    /\ rng' = [rng EXCEPT !.pos = 0]
    /\ UNCHANGED <<pc, fn, cfg, entry, t, EA, DT, D, regime, phases, pt,
                   current, theta_k_series, theta, in_session, used, results>>

\* other code draws a word between two calls, so that also after a call that
\* drew nothing the generator is in another state than at the first call
Advance ==
    /\ pc = "idle"
    /\ rng.stream = <<>>
    /\ results # <<>>
    /\ \E r \in NextWords(rng) : rng' = Drawn(rng, r)
    /\ UNCHANGED <<pc, fn, cfg, entry, t, EA, DT, D, regime, phases, pt,
                   current, theta_k_series, theta, in_session, used, results>>

(***************************************************************************)
(* simulate_asym                                                           *)
(***************************************************************************)
CallAsym ==
    \E c \in AsymCfgs :
        /\ Repeats("asym", c)
        /\ Enter("asym", c)
        /\ pc' = "asym"
        /\ UNCHANGED <<rng, regime, phases, pt, current, theta_k_series,
                       theta, in_session, results>>

\* one iteration of: for t in range(T)
AsymStep ==
    /\ pc = "asym"
    /\ t < cfg.T
    /\ \E s \in StepAll(cfg.P, cfg.noise_std, rng) : Write(s, cfg.P)
    /\ UNCHANGED <<pc, fn, cfg, entry, regime, phases, pt, current, theta_k_series,
                   theta, in_session, results>>

AsymReturn ==
    /\ pc = "asym"
    /\ t >= cfg.T
    /\ Return(<<>>)

(***************************************************************************)
(* simulate_asym_schedule                                                  *)
(***************************************************************************)
\* simulate_asym_schedule(T, Tswitch, EA0, DT0, D0, <phase 1>, <phase 2>, noise_std)
ScheduleCfg(T, Tswitch, x0, P1, P2, noise_std) ==
    [T |-> T, Tswitch |-> Tswitch, x0 |-> x0, P1 |-> P1, P2 |-> P2, noise_std |-> noise_std]
ScheduleCfgs ==
    {ScheduleCfg(T, Tswitch, x0, PHASE_1, F_PARAMS, 0) :
        T \in Horizons, Tswitch \in 0..(MaxT + 1), x0 \in {X0_DEFAULT, X0_OUT}}
    \cup {ScheduleCfg(T, Tswitch, X0_EDGE, PHASE_1, F_PARAMS, 40) :
        T \in Horizons, Tswitch \in {0, 1}}

\* faulty variant: the phase changes one step late (t <= Tswitch)
schedule_regime_late(c, i) == IF i <= c.Tswitch THEN c.P1 ELSE c.P2
\* "choose regime by time": the parameters of step i
schedule_regime(c, i) == IF i < c.Tswitch THEN c.P1 ELSE c.P2

CallSchedule ==
    \E c \in ScheduleCfgs :
        /\ Repeats("schedule", c)
        /\ Enter("schedule", c)
        /\ pc' = "schedule"
        /\ UNCHANGED <<rng, regime, phases, pt, current, theta_k_series,
                       theta, in_session, results>>

\* one iteration of: for t in range(T)
ScheduleStep ==
    /\ pc = "schedule"
    /\ t < cfg.T
    /\ LET P == schedule_regime(cfg, t) IN
         \E s \in StepAll(P, cfg.noise_std, rng) : Write(s, P)
    /\ UNCHANGED <<pc, fn, cfg, entry, regime, phases, pt, current, theta_k_series,
                   theta, in_session, results>>

ScheduleReturn ==
    /\ pc = "schedule"
    /\ t >= cfg.T
    /\ Return(<<>>)

\* The static run a single-switch run is compared with: simulate_asym with
\* the same horizon, initial values and noise and the parameters P only.
StaticOf(c, P) == AsymCfg(c.T, c.x0, P, c.noise_std)

\* after a single-switch run, the caller makes the static run of one phase
CallAsymPhase ==
    /\ results # <<>>
    /\ results[1].fn = "schedule"
    /\ \E P \in {results[1].cfg.P1, results[1].cfg.P2} :
         Enter("asym", StaticOf(results[1].cfg, P))
    /\ pc' = "asym"
    /\ UNCHANGED <<rng, regime, phases, pt, current, theta_k_series,
                   theta, in_session, results>>

(***************************************************************************)
(* simulate_intermit                                                       *)
(***************************************************************************)
\* simulate_intermit(T, EA0, DT0, D0, p_clientelist, rho, noise_std);
\* rho is <<>> for None and <<r>> for the number r
IntermitCfg(T, x0, p, rho, noise_std) ==
    [T |-> T, x0 |-> x0, p_clientelist |-> p, rho |-> rho, noise_std |-> noise_std]
IntermitCfgs ==
    {IntermitCfg(T, X0_DEFAULT, p, rho, 0) :
        T \in Horizons, p \in {0, 5000, One}, rho \in {<<>>, <<0>>, <<5000>>}}
    \cup {IntermitCfg(T, X0_EDGE, 5000, rho, 40) : T \in Horizons, rho \in {<<>>, <<5000>>}}

\* 'C' if rng.random() < p else 'F'
fresh_draw(p, g) == {[regime |-> IF u.v < p THEN "C" ELSE "F", g |-> u.g] : u \in rng_random(g)}

\* faulty variant: without rho, 'C' is taken also when the draw equals p
draw_regime_le(prev, p, rho, g) ==
    IF rho = <<>>
    THEN {[regime |-> IF u.v <= p THEN "C" ELSE "F", g |-> u.g] : u \in rng_random(g)}
    ELSE IF prev = "None" THEN fresh_draw(p, g)
    ELSE UNION {IF u.v > rho[1] THEN fresh_draw(p, u.g)
                ELSE {[regime |-> prev, g |-> u.g]} : u \in rng_random(g)}
\* draw_regime(prev, p, rho) with the generator in state g: the regimes it
\* can return, each with the generator it leaves
draw_regime(prev, p, rho, g) ==
    IF rho = <<>> THEN fresh_draw(p, g)
    ELSE IF prev = "None" THEN fresh_draw(p, g)
    ELSE UNION {IF u.v > rho[1] THEN fresh_draw(p, u.g)
                ELSE {[regime |-> prev, g |-> u.g]} : u \in rng_random(g)}

CallIntermit ==
    \E c \in IntermitCfgs :
        /\ Repeats("intermit", c)
        /\ Enter("intermit", c)
        /\ pc' = "intermit"
        /\ regime' = "None"
        /\ UNCHANGED <<rng, phases, pt, current, theta_k_series,
                       theta, in_session, results>>

\* one iteration of: for t in range(T)
IntermitStep ==
    /\ pc = "intermit"
    /\ t < cfg.T
    /\ \E r \in draw_regime(regime, cfg.p_clientelist, cfg.rho, rng) :
         LET P == IF r.regime = "C" THEN C_PARAMS ELSE F_PARAMS IN
         /\ regime' = r.regime
         /\ \E s \in StepAll(P, cfg.noise_std, r.g) : Write(s, P)
    /\ UNCHANGED <<pc, fn, cfg, entry, phases, pt, current, theta_k_series,
                   theta, in_session, results>>

IntermitReturn ==
    /\ pc = "intermit"
    /\ t >= cfg.T
    /\ Return(<<>>)

(***************************************************************************)
(* make_phase_pattern and simulate_gaslighting                             *)
(***************************************************************************)
FIDUCIARY == F_PARAMS
CLIENTELIST == C_PARAMS

\* simulate_gaslighting(T, EA0, DT0, D0, start, min_len, max_len, noise_std)
GaslightCfg(T, x0, start, min_len, max_len, noise_std) ==
    [T |-> T, x0 |-> x0, start |-> start, min_len |-> min_len, max_len |-> max_len,
     noise_std |-> noise_std]
\* block length ranges [min_len, max_len): two lengths, one length, then
\* min_len = max_len and min_len > max_len
Lens == {<<1, 3>>, <<1, 2>>, <<2, 4>>, <<2, 2>>, <<3, 1>>}
GaslightCfgs ==
    {GaslightCfg(T, X0_DEFAULT, start, l[1], l[2], 0) :
        T \in Horizons, start \in {"fiduciary", "clientelist"}, l \in Lens}
    \cup {GaslightCfg(T, X0_EDGE, "fiduciary", 1, 3, 40) : T \in Horizons}

\* make_phase_pattern(T, start, min_len, max_len) called on its own
PatternCfg(T, start, min_len, max_len) ==
    [T |-> T, start |-> start, min_len |-> min_len, max_len |-> max_len]
\* largest horizon of a direct make_phase_pattern call
MaxPatternT == 4
PatternCfgs ==
    {PatternCfg(T, start, l[1], l[2]) :
        T \in 0..MaxPatternT, start \in {"fiduciary", "clientelist"}, l \in Lens}

\* faulty variant: the last block is not truncated
block_end_untruncated(T, from, block) == from + block
\* end = min(T, t + block)
block_end(T, from, block) == Min(T, from + block)

\* faulty variant: the label is not alternated
next_label_same(label) == label
\* current = 'clientelist' if current == 'fiduciary' else 'fiduciary'
next_label(label) == IF label = "fiduciary" THEN "clientelist" ELSE "fiduciary"

\* faulty variant: the block length is drawn from [min_len - 1, max_len)
block_lengths_from_below(g, min_len, max_len) == rng_integers(g, min_len - 1, max_len)
\* faulty variant: the block length is drawn from [min_len, max_len]
block_lengths_inclusive(g, min_len, max_len) == rng_integers(g, min_len, max_len + 1)
\* block = int(rng.integers(min_len, max_len))
block_lengths(g, min_len, max_len) == rng_integers(g, min_len, max_len)

\* faulty variant: the loop runs while t <= T
pattern_loop_inclusive(at, T) == at <= T
\* while t < T
pattern_loop(at, T) == at < T

\* make_phase_pattern is entered: phases = [], t = 0, current = start
EnterPattern(c) ==
    /\ phases' = <<>>
    /\ pt' = 0
    /\ current' = c.start

CallGaslighting ==
    \E c \in GaslightCfgs :
        /\ Repeats("gaslighting", c)
        /\ Enter("gaslighting", c)
        /\ EnterPattern(c)
        /\ pc' = "pattern"
        /\ UNCHANGED <<rng, regime, theta_k_series, theta, in_session, results>>

CallPattern ==
    \E c \in PatternCfgs :
        /\ Repeats("pattern", c)
        /\ pc = "idle"
        /\ Len(results) < MaxRuns
        /\ fn' = "pattern"
        /\ cfg' = c
        /\ entry' = rng.pos
        /\ EnterPattern(c)
        /\ pc' = "pattern"
        /\ UNCHANGED <<rng, t, EA, DT, D, regime, theta_k_series, theta, in_session,
                       used, results>>

\* one iteration of: while t < T, for min_len < max_len
PatternIter ==
    /\ pc = "pattern"
    /\ pattern_loop(pt, cfg.T)
    /\ cfg.min_len < cfg.max_len
    /\ \E b \in block_lengths(rng, cfg.min_len, cfg.max_len) :
         LET end == block_end(cfg.T, pt, b.v) IN
         /\ b.g.pos <= b.g.cap
         /\ rng' = b.g
         /\ phases' = Append(phases, <<current, pt, end>>)
         /\ pt' = end
    /\ current' = next_label(current)
    /\ UNCHANGED <<pc, fn, cfg, entry, t, EA, DT, D, regime, theta_k_series, theta,
                   in_session, used, results>>

\* rng.integers(low, high) with low >= high raises ValueError: the first
\* iteration of the loop raises, nothing is returned and nothing was drawn
PatternRaise ==
    /\ pc = "pattern"
    /\ pattern_loop(pt, cfg.T)
    /\ cfg.min_len >= cfg.max_len
    /\ pc' = "raised"
    /\ NoLocals
    /\ UNCHANGED <<rng, fn, cfg, entry, results>>

\* return phases, to the caller of a direct call
PatternReturn ==
    /\ pc = "pattern"
    /\ fn = "pattern"
    /\ ~pattern_loop(pt, cfg.T)
    /\ Return(phases)

\* the per-step parameters of a block list, block after block
RECURSIVE expand(_)
expand(ph) ==
    IF ph = <<>> THEN <<>>
    ELSE LET params == IF Head(ph)[1] = "fiduciary" THEN FIDUCIARY ELSE CLIENTELIST
         IN  [i \in 1..(Head(ph)[3] - Head(ph)[2]) |-> params] \o expand(Tail(ph))

\* make_phase_pattern returns to simulate_gaslighting, which pre-expands the
\* per-timestep regime parameters
GaslightExpand ==
    /\ pc = "pattern"
    /\ fn = "gaslighting"
    /\ ~pattern_loop(pt, cfg.T)
    /\ theta_k_series' = expand(phases)
    /\ pc' = "gaslight"
    /\ UNCHANGED <<rng, fn, cfg, entry, t, EA, DT, D, regime, phases, pt, current,
                   theta, in_session, used, results>>

\* one iteration of the update loop: for t in range(T)
GaslightStep ==
    /\ pc = "gaslight"
    /\ t < cfg.T
    /\ LET P == theta_k_series[t + 1] IN
         \E s \in StepAll(P, cfg.noise_std, rng) : Write(s, P)
    /\ UNCHANGED <<pc, fn, cfg, entry, regime, phases, pt, current, theta_k_series,
                   theta, in_session, results>>

GaslightReturn ==
    /\ pc = "gaslight"
    /\ t >= cfg.T
    /\ Return(phases)

(***************************************************************************)
(* simulate_training                                                       *)
(***************************************************************************)
Triple(ea, dt, d) == [EA |-> ea, DT |-> dt, D |-> d]
Channels == {"EA", "DT", "D"}

\* simulate_training(T, EA0, DT0, D0, <base targets>, <final targets>,
\*     <base rates>, <session rates>, theta_adapt_rate, theta_consolidate_rate,
\*     sessions, noise_std); sessions is <<>> for None and <<list>> for a list
TrainingCfg(T, x0, adapt, consolidate, sessions, noise_std) ==
    [T |-> T, x0 |-> x0,
     theta_base |-> Triple(2500, 3000, 6000), theta_final |-> Triple(7500, 8000, 1800),
     k_base |-> Triple(250, 250, 300), k_sess |-> Triple(600, 700, 600),
     theta_adapt_rate |-> adapt, theta_consolidate_rate |-> consolidate,
     sessions |-> sessions, noise_std |-> noise_std]
\* session schedules: None, no session, one window, a window reaching past T,
\* two overlapping windows, an empty window and one that starts late
Schedules == {<<>>, << <<>> >>, << <<<<0, 1>>>> >>, << <<<<1, 5>>>> >>,
              << <<<<0, 2>>, <<1, 1>>>> >>, << <<<<1, 0>>, <<2, 1>>>> >>}
\* a horizon that reaches past the first default session (steps 20..39)
LongT == 41
TrainingCfgs ==
    {TrainingCfg(T, X0_DEFAULT, 2000, 200, ss, 0) : T \in Horizons, ss \in Schedules}
    \cup {TrainingCfg(LongT, X0_DEFAULT, 2000, 200, <<>>, 0)}
    \cup {TrainingCfg(T, X0_DEFAULT, r[1], r[2], << <<<<1, 5>>>> >>, 0) :
             T \in Horizons, r \in {<<One, 0>>, <<15000, 200>>}}
    \cup {TrainingCfg(T, X0_EDGE, 2000, 200, << <<<<1, 5>>>> >>, 40) : T \in Horizons}

\* sessions = [(20 + i*40, 20) for i in range(8)]
default_sessions == [i \in 1..8 |-> <<20 + (i - 1) * 40, 20>>]

\* a slice bound i of an array of length n: a negative bound counts from the
\* end, and every bound is limited to the array
slice_bound(i, n) == IF i < 0 THEN Max(i + n, 0) ELSE Min(i, n)
\* mask[from:to] = True, for an array mask indexed from 0
slice_set(mask, from, to) ==
    LET n == Cardinality(DOMAIN mask)
    IN  [i \in DOMAIN mask |->
            IF slice_bound(from, n) <= i /\ i < slice_bound(to, n) THEN TRUE ELSE mask[i]]

\* faulty variant: a window is clipped at T, not at T+1
RECURSIVE mask_windows_short(_, _, _)
mask_windows_short(mask, ss, T) ==
    IF ss = <<>> THEN mask
    ELSE mask_windows_short(slice_set(mask, Head(ss)[1], Min(Head(ss)[1] + Head(ss)[2], T)),
                            Tail(ss), T)
\* for s, d in sessions: in_session[s : min(s+d, T+1)] = True
RECURSIVE mask_windows(_, _, _)
mask_windows(mask, ss, T) ==
    IF ss = <<>> THEN mask
    ELSE mask_windows(slice_set(mask, Head(ss)[1], Min(Head(ss)[1] + Head(ss)[2], T + 1)),
                      Tail(ss), T)

\* if sessions is None: the default; in_session = np.zeros(T+1, dtype=bool);
\* then the windows are set
session_mask(T, sessions) ==
    LET ss == IF sessions = <<>> THEN default_sessions ELSE sessions[1]
    IN  mask_windows([i \in 0..T |-> FALSE], ss, T)

\* faulty variant: the targets move at the consolidation rate inside a session too
target_rate_flat(c, sess) == c.theta_consolidate_rate
\* the rate at which the targets move at a step inside / outside a session
target_rate(c, sess) == IF sess THEN c.theta_adapt_rate ELSE c.theta_consolidate_rate

\* faulty variant: the base rate is used inside a session too
step_rates_flat(c, sess) == c.k_base
\* ea_k, dt_k, d_k at a step inside / outside a session
step_rates(c, sess) == IF sess THEN c.k_sess ELSE c.k_base

\* faulty variant: X_theta += rate * (X_theta - X_theta_final)
moved_away(th, final, rate) == [ch \in Channels |-> th[ch] + Mul(rate, th[ch] - final[ch])]
\* X_theta += rate * (X_theta_final - X_theta), for the three channels
moved(th, final, rate) == [ch \in Channels |-> th[ch] + Mul(rate, final[ch] - th[ch])]

\* faulty variant: the stepper is given the targets as they were before the update
step_targets_stale(old, new) == old
\* the targets the stepper is given: the just-updated ones
step_targets(old, new) == new

\* faulty variant: the targets start at the final targets
initial_targets_final(c) == c.theta_final
\* EA_theta = EA_theta_base; DT_theta = DT_theta_base; D_theta = D_theta_base
initial_targets(c) == c.theta_base

CallTraining ==
    \E c \in TrainingCfgs :
        /\ Repeats("training", c)
        /\ Enter("training", c)
        /\ in_session' = session_mask(c.T, c.sessions)
        /\ theta' = initial_targets(c)
        /\ pc' = "training"
        /\ UNCHANGED <<rng, regime, phases, pt, current, theta_k_series, results>>

\* one iteration of: for t in range(T)
TrainingStep ==
    /\ pc = "training"
    /\ t < cfg.T
    /\ LET new == moved(theta, cfg.theta_final, target_rate(cfg, in_session[t]))
           th  == step_targets(theta, new)
           k   == step_rates(cfg, in_session[t])
           P   == Params(th.EA, k.EA, th.DT, k.DT, th.D, k.D)
       IN  /\ theta' = new
           /\ \E s \in StepAll(P, cfg.noise_std, rng) : Write(s, P)
    /\ UNCHANGED <<pc, fn, cfg, entry, regime, phases, pt, current, theta_k_series,
                   in_session, results>>

TrainingReturn ==
    /\ pc = "training"
    /\ t >= cfg.T
    /\ Return(in_session)

(***************************************************************************)
(* The p_grid sweep of simulate_intermit                                   *)
(***************************************************************************)
\* p_grid = [0.0, 0.1, 0.2, 0.3, 0.5]: here two of its points
p_grid == <<1000, 5000>>
\* the arguments of the sweep's calls other than p_clientelist
SweepCfgs ==
    {IntermitCfg(T, X0_DEFAULT, p_grid[1], rho, 0) : T \in 1..MaxT, rho \in {<<>>, <<5000>>}}
    \cup {IntermitCfg(1, X0_DEFAULT, p_grid[1], <<>>, 40)}

\* faulty variant: every call draws from a generator of its own, freshly seeded
sweep_rng_fresh(g) == [g EXCEPT !.pos = 0]
\* the generator a call of the sweep draws from: the module's rng as it is
sweep_rng(g) == g

\* for p in p_grid: ... = simulate_intermit(T=T, p_clientelist=p, rho=rho,
\* noise_std=...): the next call of the sweep.  The script is executed twice.
SweepCall ==
    LET G == Len(p_grid)
        k == (Len(results) % G) + 1
    IN  /\ Len(results) < 2 * G
        /\ \/ pc = "idle" /\ k = 1
           \/ pc = "returned" /\ k > 1
        /\ \E c \in SweepCfgs :
             /\ results # <<>> => c = [results[1].cfg EXCEPT !.p_clientelist = p_grid[1]]
             /\ cfg' = [c EXCEPT !.p_clientelist = p_grid[k]]
             /\ EA' = Alloc(c.T, c.x0[1])
             /\ DT' = Alloc(c.T, c.x0[2])
             /\ D' = Alloc(c.T, c.x0[3])
        /\ fn' = "intermit"
        /\ rng' = sweep_rng(rng)
        /\ entry' = rng'.pos
        /\ t' = 0
        /\ used' = <<>>
        /\ regime' = "None"
        /\ pc' = "intermit"
        /\ UNCHANGED <<phases, pt, current, theta_k_series, theta, in_session, results>>

\* the script is executed again: rng = np.random.default_rng(42) and the
\* sweep from its first grid point
SweepAgain ==
    /\ pc = "returned"
    /\ Len(results) = Len(p_grid)
    /\ rng' = [rng EXCEPT !.pos = 0]
    /\ pc' = "idle"
    /\ UNCHANGED <<fn, cfg, entry, t, EA, DT, D, regime, phases, pt,
                   current, theta_k_series, theta, in_session, used, results>>

(***************************************************************************)
(* tail_stats                                                              *)
(***************************************************************************)
\* y[-tail:] of an array y indexed from 0, as a sequence: a negative start
\* counts from the end and is limited to the array, a start of 0 or more
\* counts from the front
tail_slice(y, tail) ==
    LET n     == Cardinality(DOMAIN y)
        start == IF -tail < 0 THEN Max(n - tail, 0) ELSE Min(-tail, n)
    IN  [i \in 1..(n - start) |-> y[start + i - 1]]

RECURSIVE Sum(_)
Sum(q) == IF q = <<>> THEN 0 ELSE Head(q) + Sum(Tail(q))

\* (m, ci) of tail_stats: m = mean(tail_vals); s = std(tail_vals, ddof=1);
\* ci = 1.96*s/sqrt(n).  The mean of no element and the deviation of fewer
\* than two are "nan" (numpy warns and goes on).  ci is kept as its square,
\* ci^2 = 1.96^2 * s^2 / n, in units of 1/One^2, with
\* s^2 = (n*sum(v^2) - sum(v)^2) / (n*(n-1))
tail_stats(y, tail) ==
    LET tail_vals == tail_slice(y, tail)
        n         == Len(tail_vals)
        sq        == [i \in 1..n |-> tail_vals[i] * tail_vals[i]]
        s_sq_n    == (n * Sum(sq) - Sum(tail_vals) * Sum(tail_vals)) \div (n * n * (n - 1))
    IN  [tail_vals |-> tail_vals,
         m     |-> IF n = 0 THEN "nan" ELSE Sum(tail_vals) \div n,
         ci_sq |-> IF n < 2 THEN "nan"
                   ELSE 38416 * (s_sq_n \div One) + (38416 * (s_sq_n % One)) \div One]

\* the tail lengths tail_stats is called with: 0, 1, a proper tail, more than
\* the longest trajectory holds
Tails == {0, 1, 2, MaxT + 2}

\* m, ci = tail_stats(EA_series[p]), and the same for DT and D: the caller
\* summarises a trajectory simulate_intermit returned
CallTailStats ==
    /\ pc = "returned"
    /\ fn = "intermit"
    /\ Len(results) < MaxRuns
    /\ \E y \in {results[Len(results)].EA, results[Len(results)].DT, results[Len(results)].D},
          tail \in Tails :
         results' = Append(results,
             [fn |-> "tail_stats", cfg |-> [y |-> y, tail |-> tail],
              entry |-> rng.pos, exit |-> rng.pos, EA |-> <<>>, DT |-> <<>>, D |-> <<>>,
              extra |-> tail_stats(y, tail)])
    /\ fn' = "tail_stats"
    /\ UNCHANGED <<rng, pc, cfg, entry, t, EA, DT, D, regime, phases, pt,
                   current, theta_k_series, theta, in_session, used>>

(***************************************************************************)
(* Properties                                                              *)
(***************************************************************************)
Schedulers == {"asym", "schedule", "intermit", "gaslighting", "training"}
\* the update loops
Loops == {"asym", "schedule", "intermit", "gaslight", "training"}
InUnit(x) == 0 <= x /\ x <= One
Returned == {results[i] : i \in 1..Len(results)}
Runs == {r \in Returned : r.fn \in Schedulers}
SameTrajectories(r, q) == r.EA = q.EA /\ r.DT = q.DT /\ r.D = q.D

\* C1: whenever the three initial values lie in [0,1], every element of every
\* trajectory a scheduler returns lies in [0,1], with and without noise
C1_TrajectoriesInUnit ==
    \A r \in Runs :
        InBounds(r.cfg.x0) =>
            \A i \in 0..r.cfg.T : InUnit(r.EA[i]) /\ InUnit(r.DT[i]) /\ InUnit(r.D[i])

\* a noisy run returned whose noise pushed one channel above 1 and another
\* below 0, both clamped
C1_Witness ==
    \E r \in Runs :
        /\ r.cfg.noise_std > 0 /\ r.cfg.T >= 1 /\ InBounds(r.cfg.x0)
        /\ r.cfg.x0[1] < One /\ r.EA[1] = One
        /\ r.cfg.x0[3] > 0 /\ r.D[1] = 0

\* the noise the last update step added to channel i (1: EA, 2: DT, 3: D):
\* the step's last three words are its three noise draws
LastEps(i) ==
    IF cfg.noise_std > 0
    THEN cfg.noise_std * ZTable[rng.stream[rng.pos - 3 + i] + 1]
    ELSE 0
\* x + k*(theta - x) + eps, brought into [0,1] after the sum
ClampedSum(x, k, th, eps) ==
    LET u == x + ((k * (th - x)) \div One) + eps
    IN  IF u < 0 THEN 0 ELSE IF u > One THEN One ELSE u

\* C2: every element an update loop writes is clamp(x + k*(theta - x) + eps, 0, 1)
\* of the element before it, the run's x and theta taken as they are (also
\* outside [0,1]), eps being 0 when noise_std is 0; the static run x0 = 0.5,
\* k = 0.05, theta = 0.75, T = 1 without noise returns x1 = 0.5125
C2_StepFormula ==
    /\ (pc \in Loops /\ t >= 1) =>
          /\ EA[t] = ClampedSum(EA[t - 1], used.EA_k, used.EA_theta, LastEps(1))
          /\ DT[t] = ClampedSum(DT[t - 1], used.DT_k, used.DT_theta, LastEps(2))
          /\ D[t] = ClampedSum(D[t - 1], used.D_k, used.D_theta, LastEps(3))
    /\ \A r \in Runs :
          (r.fn = "asym" /\ r.cfg = AsymCfg(1, X0_DEFAULT, ASYM_DEFAULT, 0)) => r.EA[1] = 5125

\* a static run that started below 0 with a target above 1 made a step
C2_Witness ==
    /\ pc = "asym" /\ t = 1
    /\ cfg.noise_std = 0 /\ cfg.x0 = X0_OUT /\ cfg.P = WILD
    /\ EA[0] < 0 /\ EA[1] > 0

\* the words one call of step_asymptotic consumes
DrawsOf(noise_std) == IF noise_std > 0 THEN 1 ELSE 0

\* C3: a call of step_asymptotic consumes exactly one draw when noise_std > 0
\* and leaves the generator untouched when noise_std = 0, so an update loop
\* that only calls the stepper has consumed 3 draws per step, or none
C3_DrawsPerCall ==
    /\ (pc \in Loops /\ t < cfg.T) =>
          \A o \in step_asymptotic(EA[t], F_PARAMS.EA_k, F_PARAMS.EA_theta, cfg.noise_std, rng) :
              /\ o.g.pos = rng.pos + DrawsOf(cfg.noise_std)
              /\ cfg.noise_std = 0 => o.g = rng
    /\ pc \in {"asym", "schedule", "training"} =>
          rng.pos = entry + 3 * t * DrawsOf(cfg.noise_std)
    /\ pc = "gaslight" =>
          rng.pos = entry + Len(phases) + 3 * t * DrawsOf(cfg.noise_std)

\* a noisy static step was made: three draws, the first three of the stream
C3_Witness ==
    /\ pc = "asym" /\ t = 1 /\ cfg.noise_std > 0 /\ rng.pos = entry + 3
    /\ Len(rng.stream) = 3

\* two returned runs of the same scheduler with the same arguments, without noise
ZeroNoiseTwins(r, q) == r.fn = q.fn /\ r.cfg = q.cfg /\ r.cfg.noise_std = 0

\* C4 as stated: two runs of any scheduler with identical configuration and
\* noise_std = 0 return identical trajectories whatever state the generator
\* is in at the start of each run
C4_AnyGeneratorState ==
    \A r, q \in Runs : ZeroNoiseTwins(r, q) => SameTrajectories(r, q)

\* C4 (amended): two runs with identical configuration and noise_std = 0
\* return identical trajectories whatever the generator's state for the
\* static, single-switch and adaptive-target schedulers, and when the
\* generator is in the same state at the start of both runs for the
\* probabilistic and oscillating-block schedulers
C4_ZeroNoiseDeterminism ==
    \A r, q \in Runs :
        (/\ ZeroNoiseTwins(r, q)
         /\ (r.fn \in {"asym", "schedule", "training"} \/ r.entry = q.entry))
        => SameTrajectories(r, q)

\* an adaptive-target run was repeated without noise from another generator
\* state over the longest horizon
C4_Witness ==
    /\ Len(results) = 2
    /\ results[1].fn = "training" /\ ZeroNoiseTwins(results[1], results[2])
    /\ results[1].entry # results[2].entry
    /\ results[1].cfg.T = MaxT /\ results[1].EA[MaxT] # results[1].EA[0]

\* C5: a single-switch run with Tswitch = 0 returns the trajectories of the
\* static run with the phase-2 parameters, and one with Tswitch >= T those of
\* the static run with the phase-1 parameters (same initial values, noise and
\* generator state at the start); step t uses the phase-1 parameters iff
\* t < Tswitch
C5_SingleSwitchEquivalence ==
    /\ \A r, q \in Runs :
          (r.fn = "schedule" /\ q.fn = "asym" /\ r.entry = q.entry) =>
              /\ (r.cfg.Tswitch = 0 /\ q.cfg = StaticOf(r.cfg, r.cfg.P2))
                     => SameTrajectories(r, q)
              /\ (r.cfg.Tswitch >= r.cfg.T /\ q.cfg = StaticOf(r.cfg, r.cfg.P1))
                     => SameTrajectories(r, q)
    /\ (pc = "schedule" /\ t >= 1) =>
          /\ (t - 1 < cfg.Tswitch) => used = cfg.P1
          /\ (t - 1 >= cfg.Tswitch) => used = cfg.P2

\* a noisy single-switch run with Tswitch = 0 and the static phase-2 run
\* made from the same generator state both returned, their noise clamped
C5_Witness ==
    /\ Len(results) = 2
    /\ results[1].fn = "schedule" /\ results[2].fn = "asym"
    /\ results[1].cfg.noise_std > 0 /\ results[1].cfg.T >= 1
    /\ results[1].cfg.Tswitch = 0
    /\ results[2].cfg = StaticOf(results[1].cfg, results[1].cfg.P2)
    /\ results[1].entry = results[2].entry
    /\ results[2].EA[1] = One

\* the block lists make_phase_pattern returned, each with its arguments
Patterns == {r \in Returned : r.fn \in {"pattern", "gaslighting"}}
BlockLen(b) == b[3] - b[2]

\* C6: a returned block list is contiguous and covers [0, T) exactly: it
\* starts at 0, each block starts where the block before it ends, no block is
\* empty, the last block ends at T, and the list is empty for T = 0
C6_BlocksPartition ==
    \A r \in Patterns :
        LET ph == r.extra
            n  == Len(ph)
        IN  /\ (r.cfg.T = 0) <=> (n = 0)
            /\ n > 0 => (ph[1][2] = 0 /\ ph[n][3] = r.cfg.T)
            /\ \A i \in 1..n : ph[i][2] < ph[i][3]
            /\ \A i \in 1..(n - 1) : ph[i + 1][2] = ph[i][3]

\* a list of several blocks was returned whose last block was cut short to
\* end at T
C6_Witness ==
    \E r \in Patterns :
        LET n == Len(r.extra) IN
        /\ n >= 2
        /\ BlockLen(r.extra[n]) < r.cfg.min_len

\* C7: in a returned block list the first block carries the starting label,
\* adjacent blocks carry different labels, every block but the last has
\* min_len <= length < max_len and the last block is shorter than max_len
C7_BlockLabelsAndLengths ==
    \A r \in Patterns :
        LET ph == r.extra
            n  == Len(ph)
        IN  /\ n > 0 => ph[1][1] = r.cfg.start
            /\ \A i \in 1..(n - 1) : ph[i + 1][1] # ph[i][1]
            /\ \A i \in 1..(n - 1) :
                  r.cfg.min_len <= BlockLen(ph[i]) /\ BlockLen(ph[i]) < r.cfg.max_len
            /\ n > 0 => BlockLen(ph[n]) < r.cfg.max_len

\* a list starting with 'clientelist' was returned that holds blocks of two
\* different lengths and alternates twice
C7_Witness ==
    \E r \in Patterns :
        /\ r.cfg.start = "clientelist"
        /\ Len(r.extra) >= 3
        /\ r.extra[3][1] = "clientelist"
        /\ BlockLen(r.extra[1]) # BlockLen(r.extra[2])

\* the value of rng.random() for the word at position i of the stream
UniformAt(i) == (rng.stream[i] * One) \div Cardinality(Raw)
\* the rule of a fresh draw: 'C' iff u < p
FreshRule(u, p) == IF u < p THEN "C" ELSE "F"
ParamsOf(r) == IF r = "C" THEN C_PARAMS ELSE F_PARAMS

\* C8 as stated, for runs without noise (every draw is then a regime draw):
\* with rho present the first step makes one draw and takes the fresh-draw
\* rule; a later step makes one draw to decide persistence and, unless it
\* persists, a second one by the fresh-draw rule; with rho = 0 no step ever
\* persists, so every later step makes two draws
C8_PersistenceRule ==
    (pc = "intermit" /\ cfg.rho # <<>> /\ cfg.noise_std = 0 /\ t >= 1) =>
        /\ t = 1 => (rng.pos = entry + 1 /\ regime = FreshRule(UniformAt(entry + 1), cfg.p_clientelist))
        /\ cfg.rho = <<0>> => rng.pos = entry + 1 + 2 * (t - 1)

\* C9: without rho every step makes exactly one regime draw u and takes 'C'
\* iff u < p, whatever the regime of the step before; the step uses that
\* regime's parameters, so the F parameters always for p = 0 and the C
\* parameters always for p = 1
C9_IndependentDraws ==
    (pc = "intermit" /\ cfg.rho = <<>> /\ t >= 1) =>
        LET n == 1 + 3 * DrawsOf(cfg.noise_std) IN
        /\ rng.pos = entry + n * t
        /\ regime = FreshRule(UniformAt(entry + n * (t - 1) + 1), cfg.p_clientelist)
        /\ used = ParamsOf(regime)
        /\ cfg.p_clientelist = 0 => used = F_PARAMS
        /\ cfg.p_clientelist = One => used = C_PARAMS

\* without rho and with p = 0.5, a step that drew 'C' was followed by a step
\* that drew 'F'
C9_Witness ==
    /\ pc = "intermit" /\ cfg.rho = <<>> /\ cfg.p_clientelist = 5000
    /\ cfg.noise_std = 0 /\ t = 2
    /\ FreshRule(UniformAt(entry + 1), cfg.p_clientelist) = "C"
    /\ regime = "F" /\ used = F_PARAMS

\* the targets of a training run after n steps, from the base targets
RECURSIVE TargetsAfter(_, _, _)
TargetsAfter(c, mask, n) ==
    IF n = 0 THEN c.theta_base
    ELSE LET rate == IF mask[n - 1] THEN c.theta_adapt_rate ELSE c.theta_consolidate_rate
         IN  CHOOSE after \in
                 {[ch \in Channels |->
                      before[ch] + ((rate * (c.theta_final[ch] - before[ch])) \div One)] :
                  before \in {TargetsAfter(c, mask, n - 1)}} : TRUE

\* C10: a training run starts from the base targets; step t first moves each
\* target toward its final value (at the adaptation rate when the mask is
\* true at t, at the consolidation rate otherwise) and then steps the channel
\* with the moved target and with the session rate when the mask is true at
\* t, the base rate otherwise
C10_TargetThenStep ==
    pc = "training" =>
        /\ theta = TargetsAfter(cfg, in_session, t)
        /\ t >= 1 =>
              LET k == IF in_session[t - 1] THEN cfg.k_sess ELSE cfg.k_base IN
              /\ used = Params(theta.EA, k.EA, theta.DT, k.DT, theta.D, k.D)
              /\ EA[t] = ClampedSum(EA[t - 1], k.EA, theta.EA, LastEps(1))
              /\ DT[t] = ClampedSum(DT[t - 1], k.DT, theta.DT, LastEps(2))
              /\ D[t] = ClampedSum(D[t - 1], k.D, theta.D, LastEps(3))

\* the second run of a schedule made its step 1 inside a session after a
\* step 0 outside of it
C10_Witness ==
    /\ pc = "training" /\ t = 2 /\ Len(results) = 1
    /\ ~in_session[0] /\ in_session[1]
    /\ theta.EA # cfg.theta_base.EA

\* what one step of a running update loop may do to a trajectory X whose
\* initial value is x0, with rate k and target th: nothing, or write element
\* t+1, not written before, from element t of X
WritesNext(X, Xn, x0, k, th) ==
    /\ DOMAIN X = 0..cfg.T /\ DOMAIN Xn = 0..cfg.T
    /\ X[0] = x0 /\ Xn[0] = x0
    /\ \A i \in 1..cfg.T : (X[i] # Uninit) <=> (i <= t)
    /\ \A i \in 0..cfg.T :
          Xn[i] # X[i] =>
              /\ i = t + 1 /\ t' = t + 1
              /\ cfg.noise_std = 0 => Xn[i] = ClampedSum(X[t], k, th, 0)

\* C11: a scheduler's trajectories have length T+1, element 0 is the supplied
\* initial value of the channel, and element t+1 is written exactly once, by
\* step t, from element t of the same channel; the returned trajectories
\* have every element written
C11_LengthAndSingleWrite ==
    [][/\ (pc \in Loops /\ pc' = pc) =>
             /\ WritesNext(EA, EA', cfg.x0[1], used'.EA_k, used'.EA_theta)
             /\ WritesNext(DT, DT', cfg.x0[2], used'.DT_k, used'.DT_theta)
             /\ WritesNext(D, D', cfg.x0[3], used'.D_k, used'.D_theta)
       /\ \A r \in Runs' :
             \A X \in {r.EA, r.DT, r.D} :
                 /\ DOMAIN X = 0..r.cfg.T
                 /\ \A i \in 0..r.cfg.T : X[i] # Uninit
             /\ <<r.EA[0], r.DT[0], r.D[0]>> = r.cfg.x0]_vars

\* a run over the longest horizon returned whose three initial values differ
\* and whose every element moved
C11_Witness ==
    \E r \in Runs :
        /\ r.cfg.T = MaxT /\ r.cfg.noise_std = 0
        /\ r.cfg.x0[1] # r.cfg.x0[2]
        /\ \A i \in 1..MaxT : r.EA[i] # r.EA[i - 1] /\ r.DT[i] # r.DT[i - 1]

\* C12: with T = 0 every scheduler returns trajectories of length 1 equal to
\* the initial values and consumes no draw of any kind: the generator is, all
\* through the call and at its return, at the position it had on entry
C12_ZeroHorizon ==
    /\ (pc \in Loops \cup {"pattern"} /\ fn \in Schedulers /\ cfg.T = 0) =>
          rng.pos = entry /\ t = 0
    /\ \A r \in Runs :
          r.cfg.T = 0 =>
              /\ DOMAIN r.EA = {0} /\ DOMAIN r.DT = {0} /\ DOMAIN r.D = {0}
              /\ <<r.EA[0], r.DT[0], r.D[0]>> = r.cfg.x0
              /\ r.exit = r.entry

\* after the generator had moved on, an adaptive-target run with the default
\* sessions returned with T = 0
C12_Witness ==
    \E r \in Runs :
        /\ r.cfg.T = 0 /\ r.entry > 0
        /\ r.fn = "training" /\ r.cfg.sessions = <<>>

\* C13 as stated: a call with a negative noise_std is rejected at its start:
\* no update loop writes a trajectory element with it and no trajectory is
\* returned
C13_NegativeNoiseRejected ==
    /\ (pc \in Loops /\ cfg.noise_std < 0) => t = 0
    /\ \A r \in Runs : r.cfg.noise_std >= 0

\* C14 as stated: simulate_gaslighting called with min_len > max_len is
\* rejected for every T: it draws nothing, never reaches its update loop and
\* never returns trajectories or a block list
C14_InvertedLengthsRejected ==
    /\ (fn = "gaslighting" /\ cfg.min_len > cfg.max_len) =>
          /\ pc # "gaslight"
          /\ pc \in {"pattern", "raised"} => rng.pos = entry
    /\ \A r \in Runs :
          r.fn = "gaslighting" => r.cfg.min_len <= r.cfg.max_len

\* the summaries tail_stats returned, each with its arguments
Summaries == {r \in Returned : r.fn = "tail_stats"}

\* C15 as stated: tail_stats returns a (mean, half-width) pair only for a
\* tail of at least 2 and at most the trajectory's length, and then the pair
\* summarises exactly the last `tail` elements
C15_TailWindowValidated ==
    \A r \in Summaries :
        LET n == Cardinality(DOMAIN r.cfg.y) IN
        /\ 2 <= r.cfg.tail /\ r.cfg.tail <= n
        /\ r.extra.tail_vals = [i \in 1..r.cfg.tail |-> r.cfg.y[n - r.cfg.tail + i - 1]]

\* C16: the sweep stores its results in grid order; each of its calls starts
\* to consume the shared stream where the call before it stopped; and the
\* same sweep executed again from the same initial stream state returns, for
\* every grid point, the trajectories it returned the first time
C16_SeededReproducibility ==
    LET G == Len(p_grid) IN
    \A k \in 1..Len(results) :
        /\ results[k].fn = "intermit"
        /\ results[k].cfg.p_clientelist = p_grid[((k - 1) % G) + 1]
        /\ results[k].entry = IF (k - 1) % G = 0 THEN 0 ELSE results[k - 1].exit
        /\ k > G =>
              /\ results[k].cfg = results[k - G].cfg
              /\ SameTrajectories(results[k], results[k - G])
              /\ results[k].exit = results[k - G].exit

\* a noisy sweep was executed twice; its two grid points drew different words
\* and returned different trajectories
C16_Witness ==
    /\ Len(results) = 2 * Len(p_grid)
    /\ results[1].cfg.noise_std > 0
    /\ results[2].entry = 4 /\ results[2].exit = 8
    /\ ~SameTrajectories(results[1], results[2])
    /\ results[1].EA[1] \notin {0, One}

\* make_phase_pattern is running with positive lengths min_len <= max_len
PatternRunning == pc = "pattern" /\ 1 <= cfg.min_len /\ cfg.min_len <= cfg.max_len
\* make_phase_pattern returned a block list that reaches T
PatternReturned ==
    /\ pc = "returned" /\ fn = "pattern"
    /\ LET ph == results[Len(results)].extra
       IN  IF cfg.T = 0 THEN ph = <<>> ELSE ph[Len(ph)][3] = cfg.T

\* C17 as stated: for positive min_len <= max_len, min_len = max_len
\* included, make_phase_pattern ends with a returned block list: it never
\* ends by raising
C17_ReturnsForEqualLengths ==
    (fn \in {"pattern", "gaslighting"} /\ 1 <= cfg.min_len /\ cfg.min_len <= cfg.max_len)
        => pc # "raised"

\* C17 (amended): each iteration of make_phase_pattern draws one block length
\* and advances t by at least 1, never past T; for positive min_len < max_len
\* and for T = 0 the call ends with a returned block list that reaches T; for
\* min_len = max_len and T >= 1 it ends by raising, and it raises in no
\* other case with min_len <= max_len
C17_PatternTerminates ==
    /\ [][(pc = "pattern" /\ pc' = "pattern") =>
             /\ pt < pt' /\ pt' <= cfg.T
             /\ rng'.pos = rng.pos + 1
             /\ Len(phases') = Len(phases) + 1]_vars
    /\ []((pc = "raised" /\ cfg.min_len <= cfg.max_len) =>
             (cfg.min_len = cfg.max_len /\ cfg.T >= 1))
    /\ (PatternRunning /\ (cfg.min_len < cfg.max_len \/ cfg.T = 0)) ~> PatternReturned
    /\ (PatternRunning /\ cfg.min_len = cfg.max_len /\ cfg.T >= 1) ~> (pc = "raised")

\* make_phase_pattern returned after as many iterations as T allows: a list
\* of T blocks of length 1
C17_Witness ==
    /\ PatternReturned
    /\ cfg.T = MaxPatternT
    /\ Len(results[1].extra) = MaxPatternT

\* the session schedule of the running call: the default one when sessions
\* is None
SessionsOf(c) == IF c.sessions = <<>> THEN default_sessions ELSE c.sessions[1]

\* C18: the in-session mask has length T+1 and is true at index i iff
\* 0 <= i <= T and some session has start <= i < start + duration (windows
\* that overlap are joined, a window reaching past T is clipped); the default
\* schedule is 8 windows of 20 steps starting at 20, 60, ..., 300
C18_SessionMask ==
    /\ pc = "training" =>
          /\ DOMAIN in_session = 0..cfg.T
          /\ \A i \in 0..cfg.T :
                in_session[i] <=>
                    \E j \in 1..Len(SessionsOf(cfg)) :
                        /\ SessionsOf(cfg)[j][1] <= i
                        /\ i < SessionsOf(cfg)[j][1] + SessionsOf(cfg)[j][2]
    /\ \A r \in Runs : r.fn = "training" => DOMAIN r.extra = 0..r.cfg.T
    /\ Len(default_sessions) = 8
    /\ \A j \in 1..8 : default_sessions[j] = <<40 * j - 20, 20>>

\* a run with the default schedule is inside its first session at steps 20
\* to 39 and outside of it before and after
C18_Witness ==
    /\ pc = "training" /\ cfg.sessions = <<>> /\ cfg.T = LongT
    /\ ~in_session[19] /\ in_session[20] /\ in_session[39] /\ ~in_session[40]
    /\ t = 40

\* x lies in the closed interval between a and b
Between(x, a, b) == Min(a, b) <= x /\ x <= Max(a, b)
\* both target rates of the call c lie in [0,1]
RatesInUnit(c) == InUnit(c.theta_adapt_rate) /\ InUnit(c.theta_consolidate_rate)

\* C19: with theta_adapt_rate and theta_consolidate_rate in [0,1], each
\* channel's moving target is at every step between its base and its final
\* target, no step takes it farther from the final target or past it, and,
\* the base and final targets being in [0,1], the target passed to the
\* stepper is in [0,1]
C19_TargetsBetweenBaseAndFinal ==
    [][(pc' = "training" /\ RatesInUnit(cfg')) =>
          /\ \A ch \in Channels :
                /\ Between(theta'[ch], cfg'.theta_base[ch], cfg'.theta_final[ch])
                /\ pc = "training" => Between(theta'[ch], theta[ch], cfg.theta_final[ch])
          /\ t' >= 1 =>
                /\ <<used'.EA_theta, used'.DT_theta, used'.D_theta>>
                       = <<theta'.EA, theta'.DT, theta'.D>>
                /\ InUnit(used'.EA_theta) /\ InUnit(used'.DT_theta) /\ InUnit(used'.D_theta)]_vars

\* with theta_adapt_rate = 1 the first step inside a session took every
\* target from its base value exactly to its final value
C19_Witness ==
    /\ pc = "training" /\ cfg.theta_adapt_rate = One /\ t = 2
    /\ ~in_session[0] /\ in_session[1]
    /\ theta = cfg.theta_final /\ theta # cfg.theta_base

(***************************************************************************)
(* Specification                                                          *)
(***************************************************************************)
\* the module has been loaded: rng is freshly seeded and may produce cap
\* words, nothing has been called
Loaded(cap) ==
    /\ rng = [stream |-> <<>>, pos |-> 0, cap |-> cap]
    /\ pc = "idle"
    /\ fn = "none"
    /\ cfg = [T |-> 0]
    /\ entry = 0
    /\ t = 0
    /\ EA = <<>>
    /\ DT = <<>>
    /\ D = <<>>
    /\ regime = "None"
    /\ phases = <<>>
    /\ pt = 0
    /\ current = "none"
    /\ theta_k_series = <<>>
    /\ theta = <<>>
    /\ in_session = <<>>
    /\ used = <<>>
    /\ results = <<>>

Init == Loaded(MaxStream)

Next ==
    \/ CallTailStats
    \/ CallAsym \/ AsymStep \/ AsymReturn
    \/ CallSchedule \/ ScheduleStep \/ ScheduleReturn \/ CallAsymPhase
    \/ CallIntermit \/ IntermitStep \/ IntermitReturn
    \/ CallGaslighting \/ CallPattern \/ PatternIter \/ PatternRaise \/ PatternReturn
    \/ GaslightExpand \/ GaslightStep \/ GaslightReturn
    \/ CallTraining \/ TrainingStep \/ TrainingReturn
    \/ Next_call \/ Reseed \/ Advance

Spec == Init /\ [][Next]_vars

\* the p_grid sweep of simulate_intermit, executed twice from the same seed
SweepInit == Loaded(MaxSweepStream)
SweepNext == SweepCall \/ IntermitStep \/ IntermitReturn \/ SweepAgain
SweepSpec == SweepInit /\ [][SweepNext]_vars

\* make_phase_pattern called on its own; a call that has started keeps running
PatternNext == CallPattern \/ PatternIter \/ PatternRaise \/ PatternReturn
PatternSpec == Init /\ [][PatternNext]_vars /\ WF_vars(PatternNext)

=============================================================================
